---------------------------- MODULE Spec2Model ----------------------------
(***************************************************************************)
(* Big Picture Books: the ISBN lookup pipeline of app/views.py             *)
(* (validate_isbn -> requests.get -> validate_response -> BookSerializer)  *)
(* and the four views that run it, over the Book table and the session.    *)
(*                                                                         *)
(* Python values are tagged records: [t |-> "str", v |-> <<chars>>],       *)
(* [t |-> "num", v |-> n], [t |-> "list", v |-> <<values>>],               *)
(* [t |-> "obj", v |-> record], [t |-> "null"], [t |-> "bool", v |-> b].   *)
(* A str is a sequence of one-character strings, so that len(), indexing,  *)
(* stripping and the checksum arithmetic are computed, not assumed.        *)
(* A fixed message of the source is [t |-> "lit", v |-> "the message"].    *)
(* A Python dict is a TLA+ record; "k in d" is k \in DOMAIN d.             *)
(***************************************************************************)
EXTENDS Integers, Sequences, FiniteSets, TLC

VARIABLES store, session, pc, req, ext, calls, saved, path, resp, handled,
          totals, fn_in, fn_out, preview

vars == <<store, session, pc, req, ext, calls, saved, path, resp, handled,
          totals, fn_in, fn_out, preview>>

(***************************************************************************)
(* Python values                                                           *)
(***************************************************************************)
JNull == [t |-> "null"]

JBool(b) == [t |-> "bool", v |-> b]

JNum(n) == [t |-> "num", v |-> n]

JStr(s) == [t |-> "str", v |-> s]

JList(l) == [t |-> "list", v |-> l]

JObj(o) == [t |-> "obj", v |-> o]

JLit(m) == [t |-> "lit", v |-> m]

\* f"The key '{key}' is either not present or has an empty value."
JKeyMessage(key) == [t |-> "lit", v |-> "The key '{key}' is either not present or has an empty value.", key |-> key]

\* A function's result: a returned value or a raised exception.
Return(v) == [ret |-> v]

Raise(e) == [raised |-> e]

IsRaise(x) == "raised" \in DOMAIN x

Digits == {"0", "1", "2", "3", "4", "5", "6", "7", "8", "9"}

DigitSeq == <<"0", "1", "2", "3", "4", "5", "6", "7", "8", "9">>

\* int(digit)
DigitVal(c) == (CHOOSE i \in 1..10 : DigitSeq[i] = c) - 1

\* what \s matches among the characters of the model
Whitespace == {" ", "\t", "\n"}

RECURSIVE NumToStr(_)
\* str(n) for an int n >= 0
NumToStr(n) ==
    IF n < 10 THEN <<DigitSeq[n + 1]>>
    ELSE Append(NumToStr(n \div 10), DigitSeq[(n % 10) + 1])

NoneChars == <<"N","o","n","e">>

\* str(x) of views.py:75 and of the f-strings
PyStr(x) ==
    CASE x.t = "str" -> x.v
      [] x.t = "num" -> NumToStr(x.v)
      [] x.t = "null" -> NoneChars
      [] OTHER -> <<"?">>

\* Python truthiness: "not first_book[key]" is ~Truthy(first_book[key])
Truthy(x) ==
    CASE x.t = "null" -> FALSE
      [] x.t = "bool" -> x.v
      [] x.t = "num" -> x.v # 0
      [] x.t = "str" -> Len(x.v) > 0
      [] x.t = "list" -> Len(x.v) > 0
      [] x.t = "obj" -> DOMAIN x.v # {}
      [] OTHER -> TRUE

RECURSIVE LStrip(_)
LStrip(s) ==
    IF s # <<>> /\ Head(s) \in Whitespace THEN LStrip(Tail(s)) ELSE s

RECURSIVE RStrip(_)
RStrip(s) ==
    IF s # <<>> /\ s[Len(s)] \in Whitespace THEN RStrip(SubSeq(s, 1, Len(s) - 1)) ELSE s

\* str.strip(), applied by the serializer's CharField (trim_whitespace)
Strip(s) == RStrip(LStrip(s))

(***************************************************************************)
(* ISBN Validator: views.py:61-105                                         *)
(***************************************************************************)
RECURSIVE WeightedSum10(_, _)
\* sum(int(digit) * (i + 1) for i, digit in enumerate(isbn[:-1])), from index k
WeightedSum10(s, k) ==
    IF k > Len(s) THEN 0
    ELSE DigitVal(s[k]) * k + WeightedSum10(s, k + 1)

RECURSIVE WeightedSum13(_, _)
\* sum(int(digit) * (1 if i % 2 == 0 else 3) ...), i = k - 1 the 0-based index
WeightedSum13(s, k) ==
    IF k > Len(s) THEN 0
    ELSE DigitVal(s[k]) * (IF (k - 1) % 2 = 0 THEN 1 ELSE 3) + WeightedSum13(s, k + 1)

\* str.upper() on the characters the pattern [\dXx] lets through
Upper(c) == IF c = "x" THEN "X" ELSE c

\* re.match(r'^\d{9}[\dXx]$', isbn)
MatchIsbn10(s) ==
    /\ Len(s) = 10
    /\ \A i \in 1..9 : s[i] \in Digits
    /\ s[10] \in Digits \cup {"X", "x"}

\* re.match(r'^\d{13}$', isbn)
MatchIsbn13(s) ==
    /\ Len(s) = 13
    /\ \A i \in 1..13 : s[i] \in Digits

validate_isbn10_nochecksum(s) == MatchIsbn10(s)

validate_isbn10_case_sensitive(s) ==
    IF ~MatchIsbn10(s) THEN FALSE
    ELSE LET checksum == WeightedSum10(SubSeq(s, 1, Len(s) - 1), 1) % 11
             check == IF checksum = 10 THEN "X" ELSE DigitSeq[checksum + 1]
         IN  check = s[Len(s)]

validate_isbn10(s) ==
    IF ~MatchIsbn10(s) THEN FALSE
    ELSE LET checksum == WeightedSum10(SubSeq(s, 1, Len(s) - 1), 1) % 11
             check == IF checksum = 10 THEN "X" ELSE DigitSeq[checksum + 1]
         IN  check = Upper(s[Len(s)])

validate_isbn13_no_final_mod(s) ==
    IF ~MatchIsbn13(s) THEN FALSE
    ELSE LET checksum == WeightedSum13(SubSeq(s, 1, Len(s) - 1), 1) % 10
         IN  10 - checksum = DigitVal(s[Len(s)])

validate_isbn13(s) ==
    IF ~MatchIsbn13(s) THEN FALSE
    ELSE LET checksum == WeightedSum13(SubSeq(s, 1, Len(s) - 1), 1) % 10
         IN  (10 - checksum) % 10 = DigitVal(s[Len(s)])

\* re.sub(r'[-\s]', '', isbn)
CleanIsbn(s) == SelectSeq(s, LAMBDA c : c \notin ({"-"} \cup Whitespace))

validate_isbn(isbn) ==
    LET cleaned_isbn == CleanIsbn(PyStr(isbn))
    IN  IF Len(cleaned_isbn) = 10 THEN validate_isbn10(cleaned_isbn)
        ELSE IF Len(cleaned_isbn) = 13 THEN validate_isbn13(cleaned_isbn)
        ELSE FALSE

CoverPrefix == <<"h","t","t","p","s",":","/","/","c","o","v","e","r","s",".","o","p","e","n","l","i","b","r","a","r","y",".","o","r","g","/","b","/","i","s","b","n","/">>

CoverSuffix == <<"-","L",".","j","p","g">>

\* f"https://covers.openlibrary.org/b/isbn/{isbn_number}-L.jpg"
cover_image_url(isbn_number) == JStr(CoverPrefix \o PyStr(isbn_number) \o CoverSuffix)

ApiPrefix == <<"h","t","t","p","s",":","/","/","o","p","e","n","l","i","b","r","a","r","y",".","o","r","g","/","s","e","a","r","c","h",".","j","s","o","n","?","i","s","b","n","=">>

\* f"https://openlibrary.org/search.json?isbn={isbn}"
ApiUrl(isbn) == JStr(ApiPrefix \o PyStr(isbn))

(***************************************************************************)
(* Response Normalizer: views.py:126-233                                   *)
(***************************************************************************)
ServerExplanation == JLit("There is no data available for this request from Open Library APIs server.")

\* the dict every failed check returns, before its own keys are added
ErrorBase(level, isbn, api_url) ==
    [error |-> JLit("Error from server side."),
     error_explanation |-> ServerExplanation,
     level_of_error |-> JNum(level),
     issue_with_isbn |-> isbn,
     api_url |-> api_url]

ErrorWithDetails(level, details, isbn, api_url) ==
    [error_details |-> details] @@ ErrorBase(level, isbn, api_url)

keys_expected == <<"title", "author_name", "publisher", "language">>

FailingKeys_none(first_book) == <<>>

FailingKeys_language_only(first_book) ==
    SelectSeq(<<"language">>,
              LAMBDA key : key \notin DOMAIN first_book \/ ~Truthy(first_book[key]))

FailingKeys_reversed(first_book) ==
    SelectSeq(<<"language", "publisher", "author_name", "title">>,
              LAMBDA key : key \notin DOMAIN first_book \/ ~Truthy(first_book[key]))

\* the for loop of views.py:220-230: the keys failing the test, in order
FailingKeys(first_book) ==
    SelectSeq(keys_expected,
              LAMBDA key : key \notin DOMAIN first_book \/ ~Truthy(first_book[key]))

validate_response_docs_key_in(response, isbn, api_url) ==
    IF response.status_code # 200
    THEN Return([status_code |-> JNum(response.status_code)] @@ ErrorBase(1, isbn, api_url))
    ELSE IF response.body.t = "invalid"
    THEN Raise("JSONDecodeError")
    ELSE LET response_data == response.body IN
    IF response_data.t # "obj"
    THEN Return(ErrorWithDetails(2, JLit("We did not receive expected output for this request."), isbn, api_url))
    ELSE LET docs_object == IF "docs" \in DOMAIN response_data.v
                            THEN response_data.v.docs ELSE JNull IN
    IF "docs" \notin DOMAIN response_data.v
    THEN Return(ErrorWithDetails(3, JLit("There is no 'docs' object in response."), isbn, api_url))
    ELSE IF docs_object.t # "list"
    THEN Return(ErrorWithDetails(4, JLit("The type of 'docs' object is not a list."), isbn, api_url))
    ELSE IF Len(docs_object.v) < 1
    THEN Return(ErrorWithDetails(5, JLit("The list in 'docs' object does not have a minimum of 1 book data. There is no data available for this ISBN number."), isbn, api_url))
    ELSE LET first_book == docs_object.v[1] IN
    IF first_book.t # "obj"
    THEN Return(ErrorWithDetails(6, JLit("The type of object in the list is not a dictionary. Hence, we cannot parse the data."), isbn, api_url))
    ELSE IF FailingKeys(first_book.v) # <<>>
    THEN Return(ErrorWithDetails(7, JKeyMessage(Head(FailingKeys(first_book.v))), isbn, api_url))
    ELSE Return(first_book.v)

validate_response(response, isbn, api_url) ==
    IF response.status_code # 200
    THEN Return([status_code |-> JNum(response.status_code)] @@ ErrorBase(1, isbn, api_url))
    ELSE IF response.body.t = "invalid"
    THEN Raise("JSONDecodeError")
    ELSE LET response_data == response.body IN
    IF response_data.t # "obj"
    THEN Return(ErrorWithDetails(2, JLit("We did not receive expected output for this request."), isbn, api_url))
    ELSE LET docs_object == IF "docs" \in DOMAIN response_data.v
                            THEN response_data.v.docs ELSE JNull IN
    IF docs_object = JNull
    THEN Return(ErrorWithDetails(3, JLit("There is no 'docs' object in response."), isbn, api_url))
    ELSE IF docs_object.t # "list"
    THEN Return(ErrorWithDetails(4, JLit("The type of 'docs' object is not a list."), isbn, api_url))
    ELSE IF Len(docs_object.v) < 1
    THEN Return(ErrorWithDetails(5, JLit("The list in 'docs' object does not have a minimum of 1 book data. There is no data available for this ISBN number."), isbn, api_url))
    ELSE LET first_book == docs_object.v[1] IN
    IF first_book.t # "obj"
    THEN Return(ErrorWithDetails(6, JLit("The type of object in the list is not a dictionary. Hence, we cannot parse the data."), isbn, api_url))
    ELSE IF FailingKeys(first_book.v) # <<>>
    THEN Return(ErrorWithDetails(7, JKeyMessage(Head(FailingKeys(first_book.v))), isbn, api_url))
    ELSE Return(first_book.v)

isbn_invalidation_error_response(isbn, type_of_request) ==
    [error |-> JLit("Error from client side."),
     error_explanation |-> ServerExplanation,
     error_details |-> JLit("The ISBN is incorrect. Please provide the correct ISBN."),
     level_of_error |-> JNum(0),
     issue_with_isbn |-> isbn,
     type_of_request |-> JLit(type_of_request)]

(***************************************************************************)
(* External Lookup Client and fetch_book_data: views.py:262-302            *)
(***************************************************************************)
\* requests.get(api_url) raised instead of returning a response
TransportFailure == [exc |-> "ConnectionError"]

IsTransportFailure(r) == "exc" \in DOMAIN r

TitleNotAvailable == <<"T","i","t","l","e"," ","n","o","t"," ","a","v","a","i","l","a","b","l","e">>

AuthorNotAvailable == <<"A","u","t","h","o","r"," ","n","o","t"," ","a","v","a","i","l","a","b","l","e">>

PublisherNotAvailable == <<"P","u","b","l","i","s","h","e","r"," ","n","o","t"," ","a","v","a","i","l","a","b","l","e">>

LanguageNotAvailable == <<"L","a","n","g","u","a","g","e"," ","n","o","t"," ","a","v","a","i","l","a","b","l","e">>

\* dict.get(key, default)
DictGet(d, key, default) == IF key \in DOMAIN d THEN d[key] ELSE default

\* x[0]: the first element of a list, the first character of a str, KeyError
\* on a dict (its keys are strings), TypeError on a number, a bool or None
Index0(x) ==
    CASE x.t = "list" -> IF Len(x.v) > 0 THEN Return(x.v[1]) ELSE Raise("IndexError")
      [] x.t = "str" -> IF Len(x.v) > 0 THEN Return(JStr(<<x.v[1]>>)) ELSE Raise("IndexError")
      [] x.t = "obj" -> Raise("KeyError")
      [] OTHER -> Raise("TypeError")

\* views.py:288-302, once validate_response has returned a book
BuildBookData(first_book, isbn) ==
    LET title == DictGet(first_book, "title", JStr(TitleNotAvailable))
        author_name == Index0(DictGet(first_book, "author_name", JList(<<JStr(AuthorNotAvailable)>>)))
        publisher == Index0(DictGet(first_book, "publisher", JList(<<JStr(PublisherNotAvailable)>>)))
        language == Index0(DictGet(first_book, "language", JList(<<JStr(LanguageNotAvailable)>>)))
    IN  IF IsRaise(author_name) THEN author_name
        ELSE IF IsRaise(publisher) THEN publisher
        ELSE IF IsRaise(language) THEN language
        ELSE Return([title |-> title,
                     author |-> author_name.ret,
                     isbn |-> isbn,
                     cover_page_url |-> cover_image_url(isbn),
                     language |-> language.ret,
                     publisher |-> publisher.ret])

\* fetch_book_data(isbn), given what requests.get(api_url) produced
fetch_book_data(isbn, got) ==
    LET api_url == ApiUrl(isbn) IN
    IF IsTransportFailure(got) THEN Raise(got.exc)
    ELSE LET first_book == validate_response(got, isbn, api_url) IN
         IF IsRaise(first_book) THEN first_book
         ELSE IF "error" \in DOMAIN first_book.ret THEN first_book
         ELSE BuildBookData(first_book.ret, isbn)

(***************************************************************************)
(* BookSerializer over the Book model: serializers.py:51-53,               *)
(* models.py:57-62                                                         *)
(***************************************************************************)
TitleMaxLength == 255

AuthorMaxLength == 255

IsbnMaxLength == 13

PublisherMaxLength == 255

\* URLField's default max_length
UrlMaxLength == 200

LanguageMaxLength == 50

BookFields == {"title", "author", "isbn", "publisher", "cover_page_url", "language"}

\* blank=True, null=True in the model: not required, None and "" accepted
OptionalFields == {"cover_page_url", "language"}

MaxLengthOf(f) ==
    CASE f = "title" -> TitleMaxLength
      [] f = "author" -> AuthorMaxLength
      [] f = "isbn" -> IsbnMaxLength
      [] f = "publisher" -> PublisherMaxLength
      [] f = "cover_page_url" -> UrlMaxLength
      [] f = "language" -> LanguageMaxLength

\* URLValidator on a cover URL: the scheme and host are fixed, the path may
\* hold anything but whitespace
UrlValid(s) == \A i \in 1..Len(s) : s[i] \notin Whitespace

\* the error code the field's validation ends with, "" when it passes
FieldError(data, f) ==
    IF f \notin DOMAIN data
    THEN IF f \in OptionalFields THEN "" ELSE "required"
    ELSE LET x == data[f] IN
         IF x.t = "null"
         THEN IF f \in OptionalFields THEN "" ELSE "null"
         ELSE IF x.t \notin {"str", "num"} THEN "invalid"
         ELSE LET s == Strip(PyStr(x)) IN
              IF s = <<>>
              THEN IF f \in OptionalFields THEN "" ELSE "blank"
              ELSE IF Len(s) > MaxLengthOf(f) THEN "max_length"
              ELSE IF f = "cover_page_url" /\ ~UrlValid(s) THEN "invalid"
              ELSE ""

\* serializer.errors
SerializerErrors(data) ==
    [f \in {g \in BookFields : FieldError(data, g) # ""} |-> JLit(FieldError(data, f))]

\* serializer.is_valid()
is_valid(data) == \A f \in BookFields : FieldError(data, f) = ""

\* to_internal_value of a CharField: str(), stripped
CleanValue(x) == IF x.t = "null" THEN JNull ELSE JStr(Strip(PyStr(x)))

\* serializer.validated_data, for data that is valid
validated_data(data) ==
    [f \in BookFields |-> IF f \in DOMAIN data THEN CleanValue(data[f]) ELSE JNull]

\* the row serializer.save() inserts: Book.objects.create(**validated_data)
NewRow(rows, data) == [id |-> JNum(Len(rows) + 1)] @@ validated_data(data)

(***************************************************************************)
(* Bounds and inputs                                                       *)
(***************************************************************************)
\* requests served in one behaviour
MaxRequests == 3

\* request handlers that may run at the same time (SpecConc)
NumWorkers == 2

Workers == 1..NumWorkers

Isbn10Valid == <<"0","3","0","6","4","0","6","1","5","2">>

Isbn10BadCheck == <<"0","3","0","6","4","0","6","1","5","3">>

Isbn10Hyphen == <<"0","-","3","0","6","-","4","0","6","1","5","-","2">>

Isbn13Valid == <<"9","7","8","0","3","0","6","4","0","6","1","5","7">>

Isbn13Hyphen == <<"9","7","8","-","0","-","3","0","6","-","4","0","6","1","5","-","7">>

Isbn10X == <<"0","8","0","4","4","2","9","5","7","X">>

Isbn10Space == <<"0","3","0","6"," ","4","0","6","1","5","2">>

IsbnLen12 == <<"9","7","8","0","3","0","6","4","0","6","1","5">>

Isbn13Spec == <<"9","7","8","0","3","1","6","7","6","9","4","8","8">>

\* the isbn of a request: a path segment or a form field is a str, and a
\* form or a JSON body without the key gives None
IsbnInputs ==
    {JStr(Isbn10Hyphen), JStr(Isbn13Hyphen), JStr(Isbn10X), JStr(Isbn13Spec),
     JStr(Isbn10Space), JStr(Isbn10BadCheck), JStr(IsbnLen12), JNull}

\* the <isbn> segment of the path isbn/<isbn>/ is always a str
PathIsbnInputs == IsbnInputs \ {JNull}

\* the isbn of a JSON body, which may also be a number (here an ISBN-10 that
\* fits an int)
JsonIsbnInputs == (IsbnInputs \ {JStr(Isbn10Space)}) \cup {JNum(1566199093)}

ConcIsbnInputs == {JStr(Isbn13Spec), JStr(Isbn10X), JStr(Isbn10BadCheck)}

\* a document as Open Library returns it
GoodDoc ==
    [key |-> JStr(<<"/","w">>),
     title |-> JStr(<<"T">>),
     author_name |-> JList(<<JStr(<<"A">>), JStr(<<"B">>)>>),
     publisher |-> JList(<<JStr(<<"P">>)>>),
     language |-> JList(<<JStr(<<"e","n">>)>>)]

DocsBody(docs) == JObj([numFound |-> JNum(Len(docs)), docs |-> JList(docs)])

Ok(body) == [status_code |-> 200, body |-> body]

NoLanguageDoc == [k \in DOMAIN GoodDoc \ {"language"} |-> GoodDoc[k]]

\* what requests.get may produce, for the pipeline specifications
Responses ==
    {TransportFailure,
     [status_code |-> 404, body |-> JObj([error |-> JStr(<<"n">>)])],
     Ok([t |-> "invalid"]),
     Ok(DocsBody(<<>>)),
     Ok(DocsBody(<<JObj(GoodDoc)>>)),
     Ok(DocsBody(<<JObj(NoLanguageDoc)>>)),
     Ok(DocsBody(<<JObj([GoodDoc EXCEPT !.author_name = JNum(5)])>>)),
     Ok(DocsBody(<<JObj([GoodDoc EXCEPT !.title = JList(<<JStr(<<"T">>)>>)])>>)),
     Ok(DocsBody(<<JObj([error |-> JStr(<<"e">>)] @@ GoodDoc)>>)),
     Ok(JList(<<JObj(GoodDoc)>>)),
     Ok(JObj([numFound |-> JNum(0)])),
     Ok(JObj([numFound |-> JNum(0), docs |-> JNull])),
     Ok(JObj([numFound |-> JNum(1), docs |-> JObj(GoodDoc)])),
     Ok(DocsBody(<<JStr(<<"d">>)>>)),
     Ok(DocsBody(<<JObj([GoodDoc EXCEPT !.title = JStr(<<" ", "T", " ">>),
                                        !.publisher = JStr(<<"P", "u", "b">>)])>>))}

\* the document Open Library returns once the entry has been edited
RetitledDoc == [GoodDoc EXCEPT !.title = JStr(<<"U">>)]

\* what requests.get may produce for the two steps of the search form: the
\* answer at confirm time need not be the one at preview time
UiResponses == Responses \cup {Ok(DocsBody(<<JObj(RetitledDoc)>>))}

ConcResponses ==
    {TransportFailure,
     [status_code |-> 500, body |-> [t |-> "invalid"]],
     Ok(DocsBody(<<JObj(GoodDoc)>>))}

(***************************************************************************)
(* HTTP layer: what a view hands back                                      *)
(***************************************************************************)
\* a Response / HttpResponse the view returned; outcome names the return
HttpResponse(status, body, outcome) ==
    [kind |-> "response", status |-> status, body |-> body, outcome |-> outcome]

\* an exception the view did not catch
Uncaught(exc) == [kind |-> "exception", exc |-> exc, outcome |-> "Exception"]

\* serializers.ValidationError, which the framework's handler turns into 400
ValidationErrorResponse(data) ==
    HttpResponse(400, SerializerErrors(data), "ValidationError")

NoResp == [kind |-> "none"]

NoReq == [view |-> "none"]

NoExt == [none |-> TRUE]

\* the session without the key 'context'
NoContext == [no_context |-> JBool(TRUE)]

RECURSIVE Reverse(_)
Reverse(s) == IF s = <<>> THEN <<>> ELSE Append(Reverse(Tail(s)), Head(s))

ISBNDetailView_get_respond_unannotated(isbn, got) ==
    LET updated_book_data == fetch_book_data(isbn, got) IN
    IF IsRaise(updated_book_data) THEN Uncaught(updated_book_data.raised)
    ELSE IF "error" \in DOMAIN updated_book_data.ret
    THEN HttpResponse(500, updated_book_data.ret, "ServerError")
    ELSE IF ~is_valid(updated_book_data.ret)
    THEN ValidationErrorResponse(updated_book_data.ret)
    ELSE HttpResponse(200, validated_data(updated_book_data.ret), "Success")

\* ISBNDetailView.get after validation: views.py:359-369
ISBNDetailView_get_respond(isbn, got) ==
    LET updated_book_data == fetch_book_data(isbn, got) IN
    IF IsRaise(updated_book_data) THEN Uncaught(updated_book_data.raised)
    ELSE IF "error" \in DOMAIN updated_book_data.ret
    THEN HttpResponse(500,
                      [type_of_request |-> JLit("get"),
                       type_of_error |-> JLit("internal_server_error")]
                          @@ updated_book_data.ret,
                      "ServerError")
    ELSE IF ~is_valid(updated_book_data.ret)
    THEN ValidationErrorResponse(updated_book_data.ret)
    ELSE HttpResponse(200, validated_data(updated_book_data.ret), "Success")

BookListView_post_rows_dedup(rows, isbn, got) ==
    LET updated_book_data == fetch_book_data(isbn, got) IN
    IF /\ ~IsRaise(updated_book_data)
       /\ "error" \notin DOMAIN updated_book_data.ret
       /\ is_valid(updated_book_data.ret)
       /\ \A i \in 1..Len(rows) : rows[i].isbn # CleanValue(isbn)
    THEN <<NewRow(rows, updated_book_data.ret)>>
    ELSE <<>>

\* the rows BookListView.post saves: views.py:474-476
BookListView_post_rows(rows, isbn, got) ==
    LET updated_book_data == fetch_book_data(isbn, got) IN
    IF /\ ~IsRaise(updated_book_data)
       /\ "error" \notin DOMAIN updated_book_data.ret
       /\ is_valid(updated_book_data.ret)
    THEN <<NewRow(rows, updated_book_data.ret)>>
    ELSE <<>>

\* BookListView.post after validation: views.py:468-485
BookListView_post_respond(isbn, got) ==
    LET updated_book_data == fetch_book_data(isbn, got) IN
    IF IsRaise(updated_book_data) THEN Uncaught(updated_book_data.raised)
    ELSE IF "error" \in DOMAIN updated_book_data.ret
    THEN HttpResponse(500,
                      [internal_server_error |-> JObj(updated_book_data.ret),
                       type_of_request |-> JLit("post")],
                      "ServerError")
    ELSE IF ~is_valid(updated_book_data.ret)
    THEN ValidationErrorResponse(updated_book_data.ret)
    ELSE HttpResponse(201,
                      [status |-> JLit("201 OK"),
                       book_added_to_databases |-> JBool(TRUE),
                       title |-> updated_book_data.ret.title,
                       isbn |-> updated_book_data.ret.isbn],
                      "Success")

add_book_rows_unchecked(rows, isbn, got) ==
    LET updated_book_data == fetch_book_data(isbn, got) IN
    IF ~IsRaise(updated_book_data)
    THEN <<NewRow(rows, updated_book_data.ret)>>
    ELSE <<>>

add_book_rows_from_session(rows, isbn, got) ==
    LET updated_book_data == fetch_book_data(isbn, got) IN
    IF ~IsRaise(updated_book_data) /\ is_valid(updated_book_data.ret)
    THEN <<NewRow(rows, [f \in BookFields \cap DOMAIN session |-> session[f]])>>
    ELSE <<>>

\* the rows add_book_to_library saves: views.py:537-540
add_book_rows(rows, isbn, got) ==
    LET updated_book_data == fetch_book_data(isbn, got) IN
    IF ~IsRaise(updated_book_data) /\ is_valid(updated_book_data.ret)
    THEN <<NewRow(rows, updated_book_data.ret)>>
    ELSE <<>>

\* add_book_to_library (POST) after validation: views.py:536-545
add_book_respond(rows, isbn, got) ==
    LET updated_book_data == fetch_book_data(isbn, got) IN
    IF IsRaise(updated_book_data) THEN Uncaught(updated_book_data.raised)
    ELSE IF is_valid(updated_book_data.ret)
    THEN HttpResponse(200,
                      [template |-> JLit("app/success.html"),
                       context |-> JObj(NewRow(rows, updated_book_data.ret))],
                      "Success")
    ELSE HttpResponse(500,
                      [error |-> JLit("Failed to save book to the library.")],
                      "ServerError")

\* index (POST) after validation: views.py:508-510
index_post_respond(isbn, got) ==
    LET response == fetch_book_data(isbn, got) IN
    IF IsRaise(response) THEN Uncaught(response.raised)
    ELSE HttpResponse(200,
                      [template |-> JLit("app/book_details.html"),
                       context |-> JObj(response.ret)],
                      "Rendered")

BookListView_get_respond_latest_first(rows) ==
    HttpResponse(200, JList([i \in 1..Len(rows) |-> JObj(Reverse(rows)[i])]), "Listing")

\* BookListView.get, views.py:434-436: Book.objects.all() has no ordering;
\* the table, never updated, is read in primary-key order
BookListView_get_respond(rows) ==
    HttpResponse(200, JList([i \in 1..Len(rows) |-> JObj(rows[i])]), "Listing")

index_render_unordered(rows) ==
    HttpResponse(200,
                 [template |-> JLit("app/index.html"),
                  context |-> JObj([books |-> JList([i \in 1..Len(rows) |-> JObj(rows[i])])])],
                 "Rendered")

\* index, views.py:502-503, 512: Book.objects.all().order_by('-pk')
index_render(rows) ==
    HttpResponse(200,
                 [template |-> JLit("app/index.html"),
                  context |-> JObj([books |-> JList([i \in 1..Len(rows) |-> JObj(Reverse(rows)[i])])])],
                 "Rendered")

(***************************************************************************)
(* State                                                                   *)
(*   store    the Book table, rows in primary-key order                    *)
(*   session  the browser session's 'context' entry                        *)
(*   pc[p]    "idle", "fetching" (blocked in requests.get), "done"         *)
(*   req[p]   the request worker p is serving                              *)
(*   ext[p]   what requests.get produced for it                            *)
(*   resp[p]  what the view handed back                                    *)
(*   calls[p] requests.get calls made for this request       (history)     *)
(*   saved[p] rows this request inserted                     (history)     *)
(*   path[p]  pipeline stages this request went through      (history)     *)
(*   handled  requests begun so far                                        *)
(*   totals   requests.get calls made and requests that returned a         *)
(*            success after saving, over the whole run       (history)     *)
(*   fn_in, fn_out  argument and result of a function applied on its own   *)
(*   preview  what the search form put in the session, until a confirm     *)
(*            step has replaced it with the row it saved     (history)     *)
(***************************************************************************)
NoArg == [none |-> TRUE]

Init ==
    /\ store = <<>>
    /\ session = NoContext
    /\ preview = NoContext
    /\ pc = [p \in Workers |-> "idle"]
    /\ req = [p \in Workers |-> NoReq]
    /\ ext = [p \in Workers |-> NoExt]
    /\ resp = [p \in Workers |-> NoResp]
    /\ calls = [p \in Workers |-> 0]
    /\ saved = [p \in Workers |-> <<>>]
    /\ path = [p \in Workers |-> <<>>]
    /\ handled = 0
    /\ totals = [calls |-> 0, succeeded |-> 0]
    /\ fn_in = NoArg
    /\ fn_out = NoArg

\* the views that save what they fetched
PersistingViews == {"book_list", "add_book"}

\* The common opening of the four pipeline views: validate_isbn(isbn); when
\* it fails return `invalid` without calling out, otherwise call requests.get
\* (the worker blocks until the *_finish step).
BeginPipeline(p, view, method, isbn, invalid) ==
    /\ pc[p] = "idle"
    /\ handled < MaxRequests
    /\ handled' = handled + 1
    /\ req' = [req EXCEPT ![p] = [view |-> view, method |-> method, isbn |-> isbn]]
    /\ IF validate_isbn(isbn)
       THEN /\ pc' = [pc EXCEPT ![p] = "fetching"]
            /\ calls' = [calls EXCEPT ![p] = calls[p] + 1]
            /\ totals' = [totals EXCEPT !.calls = totals.calls + 1]
            /\ path' = [path EXCEPT ![p] = <<"Start", "ValidatingISBN", "FetchingExternal">>]
            /\ resp' = resp
       ELSE /\ pc' = [pc EXCEPT ![p] = "done"]
            /\ calls' = calls
            /\ totals' = totals
            /\ path' = [path EXCEPT ![p] = <<"Start", "ValidatingISBN", invalid.outcome>>]
            /\ resp' = [resp EXCEPT ![p] = invalid]
    /\ UNCHANGED <<store, session, ext, saved, fn_in, fn_out, preview>>

\* requests.get has produced `got`; the view runs to its return with `r`,
\* inserting `rows` and leaving the session as `sess`.
FinishPipeline(p, view, got, r, rows, sess) ==
    /\ pc[p] = "fetching"
    /\ req[p].view = view
    /\ ext' = [ext EXCEPT ![p] = got]
    /\ resp' = [resp EXCEPT ![p] = r]
    /\ store' = store \o rows
    /\ saved' = [saved EXCEPT ![p] = saved[p] \o rows]
    /\ session' = sess
    /\ preview' = IF view = "index" /\ ~IsRaise(fetch_book_data(req[p].isbn, got))
                  THEN fetch_book_data(req[p].isbn, got).ret
                  ELSE preview
    /\ path' = [path EXCEPT ![p] =
                  path[p] \o (IF IsTransportFailure(got) THEN <<r.outcome>>
                              ELSE <<"Normalizing", r.outcome>>)]
    /\ pc' = [pc EXCEPT ![p] = "done"]
    /\ totals' = [totals EXCEPT !.succeeded =
                    totals.succeeded + (IF view \in PersistingViews /\ r.outcome = "Success"
                                        THEN 1 ELSE 0)]
    /\ UNCHANGED <<req, calls, handled, fn_in, fn_out>>

\* views.py:339-357
ISBNDetailView_get_begin(p, isbn) ==
    BeginPipeline(p, "isbn_detail", "GET", isbn,
                  HttpResponse(400, isbn_invalidation_error_response(isbn, "get"), "ClientError"))

\* views.py:359-369
ISBNDetailView_get_finish(p, got) ==
    FinishPipeline(p, "isbn_detail", got,
                   ISBNDetailView_get_respond(req[p].isbn, got), <<>>, session)

BookListView_post_begin_unchecked(p, isbn) ==
    /\ pc[p] = "idle"
    /\ handled < MaxRequests
    /\ handled' = handled + 1
    /\ req' = [req EXCEPT ![p] = [view |-> "book_list", method |-> "POST", isbn |-> isbn]]
    /\ pc' = [pc EXCEPT ![p] = "fetching"]
    /\ calls' = [calls EXCEPT ![p] = calls[p] + 1]
    /\ totals' = [totals EXCEPT !.calls = totals.calls + 1]
    /\ path' = [path EXCEPT ![p] = <<"Start", "ValidatingISBN", "FetchingExternal">>]
    /\ UNCHANGED <<store, session, ext, saved, resp, fn_in, fn_out, preview>>

\* views.py:450-466
BookListView_post_begin(p, isbn) ==
    BeginPipeline(p, "book_list", "POST", isbn,
                  HttpResponse(400, isbn_invalidation_error_response(isbn, "post"), "ClientError"))

\* views.py:468-485
BookListView_post_finish(p, got) ==
    FinishPipeline(p, "book_list", got,
                   BookListView_post_respond(req[p].isbn, got),
                   BookListView_post_rows(store, req[p].isbn, got), session)

\* views.py:427-436: Book.objects.all(), serialized
BookListView_get(p) ==
    /\ pc[p] = "idle"
    /\ handled < MaxRequests
    /\ handled' = handled + 1
    /\ req' = [req EXCEPT ![p] = [view |-> "book_list", method |-> "GET", isbn |-> JNull]]
    /\ resp' = [resp EXCEPT ![p] =
                  BookListView_get_respond(store)]
    /\ pc' = [pc EXCEPT ![p] = "done"]
    /\ UNCHANGED <<store, session, ext, calls, saved, path, totals, fn_in, fn_out, preview>>

\* views.py:502-503, 512: the index page on GET
index_get(p) ==
    /\ pc[p] = "idle"
    /\ handled < MaxRequests
    /\ handled' = handled + 1
    /\ req' = [req EXCEPT ![p] = [view |-> "index", method |-> "GET", isbn |-> JNull]]
    /\ resp' = [resp EXCEPT ![p] =
                  index_render(store)]
    /\ pc' = [pc EXCEPT ![p] = "done"]
    /\ UNCHANGED <<store, session, ext, calls, saved, path, totals, fn_in, fn_out, preview>>

\* views.py:505-508, 512: the search form; an invalid ISBN renders the index
index_post_begin(p, isbn) ==
    BeginPipeline(p, "index", "POST", isbn,
                  index_render(store))

\* views.py:508-510: the fetched dict goes to the session and to the page
index_post_finish(p, got) ==
    FinishPipeline(p, "index", got,
                   index_post_respond(req[p].isbn, got), <<>>,
                   IF IsRaise(fetch_book_data(req[p].isbn, got)) THEN session
                   ELSE fetch_book_data(req[p].isbn, got).ret)

\* views.py:528-534: the isbn comes from the session's context
add_book_to_library_post_begin(p) ==
    LET isbn_number == DictGet(session, "isbn", JNull) IN
    BeginPipeline(p, "add_book", "POST", isbn_number,
                  HttpResponse(400, isbn_invalidation_error_response(isbn_number, "post"), "ClientError"))

\* views.py:536-545
add_book_to_library_post_finish(p, got) ==
    FinishPipeline(p, "add_book", got,
                   add_book_respond(store, req[p].isbn, got),
                   add_book_rows(store, req[p].isbn, got),
                   IF add_book_rows(store, req[p].isbn, got) = <<>> THEN session
                   ELSE add_book_rows(store, req[p].isbn, got)[1])

\* views.py:547-548: on GET, `context` was never bound; the 500 that results
\* keeps the session middleware from saving the pop
add_book_to_library_get(p) ==
    /\ pc[p] = "idle"
    /\ handled < MaxRequests
    /\ handled' = handled + 1
    /\ req' = [req EXCEPT ![p] = [view |-> "add_book", method |-> "GET", isbn |-> JNull]]
    /\ resp' = [resp EXCEPT ![p] = Uncaught("UnboundLocalError")]
    /\ pc' = [pc EXCEPT ![p] = "done"]
    /\ UNCHANGED <<store, session, ext, calls, saved, path, totals, fn_in, fn_out, preview>>

\* the response is sent; the worker takes the next request
Deliver(p) ==
    /\ pc[p] = "done"
    /\ pc' = [pc EXCEPT ![p] = "idle"]
    /\ req' = [req EXCEPT ![p] = NoReq]
    /\ ext' = [ext EXCEPT ![p] = NoExt]
    /\ resp' = [resp EXCEPT ![p] = NoResp]
    /\ calls' = [calls EXCEPT ![p] = 0]
    /\ saved' = [saved EXCEPT ![p] = <<>>]
    /\ path' = [path EXCEPT ![p] = <<>>]
    /\ preview' = IF req[p].view = "add_book" /\ saved[p] # <<>> THEN NoContext ELSE preview
    /\ UNCHANGED <<store, session, handled, totals, fn_in, fn_out>>

\* One request at a time (the pipeline is synchronous).
Next ==
    \/ \E isbn \in PathIsbnInputs : ISBNDetailView_get_begin(1, isbn)
    \/ \E got \in Responses : ISBNDetailView_get_finish(1, got)
    \/ \E isbn \in JsonIsbnInputs : BookListView_post_begin(1, isbn)
    \/ \E got \in Responses : BookListView_post_finish(1, got)
    \/ BookListView_get(1)
    \/ index_get(1)
    \/ \E isbn \in IsbnInputs : index_post_begin(1, isbn)
    \/ \E got \in UiResponses : index_post_finish(1, got)
    \/ add_book_to_library_post_begin(1)
    \/ \E got \in UiResponses : add_book_to_library_post_finish(1, got)
    \/ add_book_to_library_get(1)
    \/ Deliver(1)

Spec == Init /\ [][Next]_vars

\* Handlers running at the same time, each blocked in its own requests.get.
NextConc ==
    \E p \in Workers :
        \/ \E isbn \in ConcIsbnInputs : BookListView_post_begin(p, isbn)
        \/ \E got \in ConcResponses : BookListView_post_finish(p, got)
        \/ \E isbn \in ConcIsbnInputs : index_post_begin(p, isbn)
        \/ \E got \in ConcResponses : index_post_finish(p, got)
        \/ add_book_to_library_post_begin(p)
        \/ \E got \in ConcResponses : add_book_to_library_post_finish(p, got)
        \/ Deliver(p)

SpecConc == Init /\ [][NextConc]_vars

(***************************************************************************)
(* validate_response on its own, over every shape of response              *)
(***************************************************************************)
\* values a key of a document may hold
DocValues ==
    {JNull, JBool(FALSE), JNum(0), JNum(5), JStr(<<>>), JStr(<<"T">>),
     JList(<<>>), JList(<<JStr(<<"A">>)>>), JObj(<<>>)}

DocKeys == {"title", "author_name", "publisher", "language"}

\* every document over DocKeys and DocValues; "key" is always there
Docs ==
    UNION {{[k \in K \cup {"key"} |-> IF k = "key" THEN JStr(<<"/","w">>) ELSE f[k]] :
                f \in [K -> DocValues]} : K \in SUBSET DocKeys}

\* {"title": "T", "author_name": ["A"], "publisher": ["P"]}
NoLanguageOnlyDoc ==
    [title |-> JStr(<<"T">>),
     author_name |-> JList(<<JStr(<<"A">>)>>),
     publisher |-> JList(<<JStr(<<"P">>)>>)]

DocsValues ==
    {JNull, JNum(1), JStr(<<>>), JStr(<<"d">>), JObj(GoodDoc),
     JList(<<>>), JList(<<JNull>>), JList(<<JStr(<<"d">>)>>),
     JList(<<JList(<<JObj(GoodDoc)>>)>>), JList(<<JNum(1), JObj(GoodDoc)>>)}
        \cup {JList(<<JObj(d)>>) : d \in Docs}
        \cup {JList(<<JObj(GoodDoc), x>>) : x \in {JNull, JObj(NoLanguageDoc)}}
        \cup {JList(<<JObj(NoLanguageOnlyDoc)>>)}

Bodies ==
    {[t |-> "invalid"], JNull, JNum(1), JBool(TRUE), JStr(<<"d">>),
     JList(<<>>), JList(<<JObj(GoodDoc)>>),
     JObj([numFound |-> JNum(0)])}
        \cup {JObj([numFound |-> JNum(1), docs |-> d]) : d \in DocsValues}

StatusCodes == {200, 404, 500}

NormalizerInputs ==
    {[status_code |-> 200, body |-> b] : b \in Bodies}
        \cup {[status_code |-> c, body |-> b] :
                c \in StatusCodes,
                b \in {[t |-> "invalid"], JList(<<>>), DocsBody(<<>>), DocsBody(<<JObj(GoodDoc)>>)}}

InitNormalize ==
    /\ fn_in \in {[response |-> r, isbn |-> JStr(Isbn13Spec)] : r \in NormalizerInputs}
    /\ fn_out = NoArg
    /\ store = <<>>
    /\ session = NoContext
    /\ preview = NoContext
    /\ pc = [p \in Workers |-> "idle"]
    /\ req = [p \in Workers |-> NoReq]
    /\ ext = [p \in Workers |-> NoExt]
    /\ resp = [p \in Workers |-> NoResp]
    /\ calls = [p \in Workers |-> 0]
    /\ saved = [p \in Workers |-> <<>>]
    /\ path = [p \in Workers |-> <<>>]
    /\ handled = 0
    /\ totals = [calls |-> 0, succeeded |-> 0]

\* first_book = validate_response(response, isbn, api_url), views.py:283
ApplyValidateResponse ==
    /\ fn_out = NoArg
    /\ fn_out' = validate_response(fn_in.response, fn_in.isbn, ApiUrl(fn_in.isbn))
    /\ UNCHANGED <<store, session, pc, req, ext, calls, saved, path, resp,
                   handled, totals, fn_in, preview>>

NextNormalize == ApplyValidateResponse

SpecNormalize == InitNormalize /\ [][NextNormalize]_vars

(***************************************************************************)
(* fetch_book_data on its own, over every shape of response                *)
(***************************************************************************)
\* no request is being served: the state around a function applied on its own
Idle ==
    /\ store = <<>>
    /\ session = NoContext
    /\ preview = NoContext
    /\ pc = [p \in Workers |-> "idle"]
    /\ req = [p \in Workers |-> NoReq]
    /\ ext = [p \in Workers |-> NoExt]
    /\ resp = [p \in Workers |-> NoResp]
    /\ calls = [p \in Workers |-> 0]
    /\ saved = [p \in Workers |-> <<>>]
    /\ path = [p \in Workers |-> <<>>]
    /\ handled = 0
    /\ totals = [calls |-> 0, succeeded |-> 0]

\* isbn arguments that pass validate_isbn: str, with hyphens, int
FetchIsbns == {JStr(Isbn13Spec), JStr(Isbn10Hyphen), JNum(1566199093)}

\* every shape of response, no response at all, and a document that has a
\* key "error" of its own
FetchInputs ==
    NormalizerInputs
        \cup {TransportFailure,
              Ok(DocsBody(<<JObj([error |-> JStr(<<"e">>)] @@ GoodDoc)>>))}

InitFetch ==
    /\ fn_in \in {[response |-> r, isbn |-> i] : r \in FetchInputs, i \in FetchIsbns}
    /\ fn_out = NoArg
    /\ Idle

\* updated_book_data = fetch_book_data(isbn), views.py:359
ApplyFetchBookData ==
    /\ fn_out = NoArg
    /\ fn_out' = fetch_book_data(fn_in.isbn, fn_in.response)
    /\ UNCHANGED <<store, session, pc, req, ext, calls, saved, path, resp,
                   handled, totals, fn_in, preview>>

NextFetch == ApplyFetchBookData

SpecFetch == InitFetch /\ [][NextFetch]_vars

(***************************************************************************)
(* validate_isbn on its own                                                *)
(***************************************************************************)
\* the first nine characters of an ISBN-10: check characters 2, X, 3, 0,
\* and one that is not all digits
Prefixes9 ==
    {<<"0","3","0","6","4","0","6","1","5">>,
     <<"0","8","0","4","4","2","9","5","7">>,
     <<"1","5","6","6","1","9","9","0","9">>,
     <<"0","0","0","0","0","0","0","0","0">>,
     <<"0","3","0","6","4","0","6","1","A">>}

\* the first twelve characters of an ISBN-13: check digits 7, 8, 0, and one
\* that is not all digits
Prefixes12 ==
    {<<"9","7","8","0","3","0","6","4","0","6","1","5">>,
     <<"9","7","8","0","3","1","6","7","6","9","4","8">>,
     <<"9","7","8","0","3","0","6","4","0","6","1","4">>,
     <<"9","7","8","0","3","0","6","4","0","6","1","X">>}

LastChars == Digits \cup {"X", "x", "A"}

\* s as a user may type it: bare, hyphenated, spaced, with a line end
Typed(s) ==
    {s,
     <<s[1], "-">> \o SubSeq(s, 2, Len(s) - 1) \o <<"-", s[Len(s)]>>,
     <<" ">> \o SubSeq(s, 1, 4) \o <<" ", "\t">> \o SubSeq(s, 5, Len(s)),
     s \o <<"\n">>}

\* strings of 10 and 13 characters once cleaned, and of 0, 9, 11, 12 and 14
IsbnStrings ==
    UNION {Typed(pre \o <<c>>) : pre \in Prefixes9 \cup Prefixes12, c \in LastChars}
        \cup {<<>>, <<"-", " ">>, IsbnLen12, Isbn13Hyphen, Isbn10Hyphen, Isbn10Space,
              SubSeq(Isbn10Valid, 1, 9), Isbn10Valid \o <<"2">>,
              Isbn13Valid \o <<"7">>, Isbn13Valid \o <<"-", "7">>}

\* isbn (str or int) as the docstring has it, and None
ValidateInputs ==
    {JStr(s) : s \in IsbnStrings}
        \cup {JNull, JNum(5), JNum(1566199093), JNum(1566199094)}

InitValidate ==
    /\ fn_in \in {[isbn |-> x] : x \in ValidateInputs}
    /\ fn_out = NoArg
    /\ Idle

\* validate_isbn(isbn), views.py:355
ApplyValidateIsbn ==
    /\ fn_out = NoArg
    /\ fn_out' = Return(validate_isbn(fn_in.isbn))
    /\ UNCHANGED <<store, session, pc, req, ext, calls, saved, path, resp,
                   handled, totals, fn_in, preview>>

NextValidate == ApplyValidateIsbn

SpecValidate == InitValidate /\ [][NextValidate]_vars

(***************************************************************************)
(* Properties                                                              *)
(***************************************************************************)
ViewOf(p) == <<req[p].view, req[p].method>>

\* p is serving one of the two API endpoints that run the pipeline
ApiRequest(p) ==
    pc[p] # "idle" /\ ViewOf(p) \in {<<"isbn_detail", "GET">>, <<"book_list", "POST">>}

\* p is serving one of the four entry points that run the pipeline
PipelineRequest(p) ==
    pc[p] # "idle" /\ ViewOf(p) \in {<<"isbn_detail", "GET">>, <<"book_list", "POST">>,
                                     <<"index", "POST">>, <<"add_book", "POST">>}

TypeOfRequest(p) == IF req[p].method = "GET" THEN "get" ELSE "post"

\* what fetch_book_data gave the view p, once p is done and did call out
Fetched(p) == fetch_book_data(req[p].isbn, ext[p])

\* p is done and the normalizer produced a LookupError for it
LookupErrorResulted(p) ==
    /\ pc[p] = "done"
    /\ ext[p] # NoExt
    /\ ~IsRaise(Fetched(p))
    /\ "level_of_error" \in DOMAIN Fetched(p).ret

\* p is done and the normalizer produced a book record for it
RecordResulted(p) ==
    /\ pc[p] = "done"
    /\ ext[p] # NoExt
    /\ ~IsRaise(Fetched(p))
    /\ "error" \notin DOMAIN Fetched(p).ret

AllowedPaths ==
    {<<"Start", "ValidatingISBN", "ClientError">>,
     <<"Start", "ValidatingISBN", "FetchingExternal", "ServerError">>,
     <<"Start", "ValidatingISBN", "FetchingExternal", "Normalizing", "ServerError">>,
     <<"Start", "ValidatingISBN", "FetchingExternal", "Normalizing", "Success">>}

\* C1: every API pipeline invocation ends in ClientError, ServerError or
\* Success along Start -> ValidatingISBN -> {ClientError | FetchingExternal
\* -> {ServerError | Normalizing -> {ServerError | Success}}}, and never in
\* a raw exception or any other outcome.
C1_ThreeOutcomes ==
    \A p \in Workers :
        (pc[p] = "done" /\ ApiRequest(p)) =>
            /\ resp[p].kind = "response"
            /\ resp[p].outcome \in {"ClientError", "ServerError", "Success"}
            /\ path[p] \in AllowedPaths

\* C2: an invocation of any of the four entry points has called
\* requests.get zero times when its ISBN failed validate_isbn and exactly
\* once when it passed, however the call ended; nothing else calls out.
C2_CallsFollowValidation ==
    \A p \in Workers :
        /\ calls[p] <= 1
        /\ pc[p] # "idle" =>
              calls[p] = (IF PipelineRequest(p) /\ validate_isbn(req[p].isbn) THEN 1 ELSE 0)

\* a call that failed (an error status, a bad body, no response at all)
\* was made once and the invocation is over
C2_Witness ==
    \E p \in Workers :
        /\ pc[p] = "done"
        /\ PipelineRequest(p)
        /\ calls[p] = 1
        /\ resp[p].outcome \in {"ServerError", "Exception"}

RECURSIVE Mod11Sum(_, _)
\* 1*d1 + 2*d2 + ... + n*dn
Mod11Sum(s, n) == IF n = 0 THEN 0 ELSE n * DigitVal(s[n]) + Mod11Sum(s, n - 1)

RECURSIVE Mod10Sum(_, _)
\* d1 + 3*d2 + d3 + 3*d4 + ... up to dn
Mod10Sum(s, n) ==
    IF n = 0 THEN 0
    ELSE (IF n % 2 = 1 THEN 1 ELSE 3) * DigitVal(s[n]) + Mod10Sum(s, n - 1)

\* the ISBN-10 rule: nine digits and a check character worth the weighted
\* sum modulo 11, X standing for 10
Isbn10ChecksumHolds(s) ==
    /\ Len(s) = 10
    /\ \A i \in 1..9 : s[i] \in Digits
    /\ \/ s[10] \in Digits /\ Mod11Sum(s, 9) % 11 = DigitVal(s[10])
       \/ s[10] \in {"X", "x"} /\ Mod11Sum(s, 9) % 11 = 10

\* the ISBN-13 rule: thirteen digits whose weighted sum is a multiple of 10
Isbn13ChecksumHolds(s) ==
    /\ Len(s) = 13
    /\ \A i \in 1..13 : s[i] \in Digits
    /\ Mod10Sum(s, 13) % 10 = 0

WithoutHyphens(s) == SelectSeq(s, LAMBDA c : c # "-")

C5_TransportFailureIsLevel1 ==
    \A p \in Workers :
        (pc[p] = "done" /\ ApiRequest(p) /\ IsTransportFailure(ext[p])) =>
            /\ resp[p].kind = "response"
            /\ resp[p].status = 500
            /\ LET d == IF req[p].method = "GET" THEN resp[p].body
                        ELSE resp[p].body.internal_server_error.v
               IN  "level_of_error" \in DOMAIN d /\ d.level_of_error = JNum(1)

\* a row as Book.objects.create makes it: every column, the four required
\* ones non-empty text
CompleteRow(r) ==
    /\ DOMAIN r = BookFields \cup {"id"}
    /\ \A f \in BookFields \ OptionalFields : r[f].t = "str" /\ r[f].v # <<>>
    /\ r.cover_page_url = cover_image_url(r.isbn)

WellFormedResponse == Ok(DocsBody(<<JObj(GoodDoc)>>))

\* C7: a POST with a checksum-valid ISBN and a well-formed document returns
\* 201 with {status, book_added_to_databases: true, title, isbn} echoing the
\* record, and adds exactly one row, whatever the store already holds.
C7_PostCreatesOneRow ==
    \A p \in Workers :
        (/\ pc[p] = "done"
         /\ ViewOf(p) = <<"book_list", "POST">>
         /\ validate_isbn(req[p].isbn)
         /\ ext[p] = WellFormedResponse) =>
            /\ resp[p].kind = "response"
            /\ resp[p].status = 201
            /\ resp[p].body = [status |-> JLit("201 OK"),
                               book_added_to_databases |-> JBool(TRUE),
                               title |-> GoodDoc.title,
                               isbn |-> req[p].isbn]
            /\ Len(saved[p]) = 1

\* C9: on the API endpoints an invalid ISBN gives 400 with level_of_error 0,
\* the isbn and the request type; a LookupError gives 500; a normalized
\* record gives 200 with the serialized record on GET and 201 on POST.
C9_StatusFollowsOutcome ==
    \A p \in Workers :
        (pc[p] = "done" /\ ApiRequest(p)) =>
            /\ ~validate_isbn(req[p].isbn) =>
                  /\ resp[p].kind = "response"
                  /\ resp[p].status = 400
                  /\ resp[p].body.level_of_error = JNum(0)
                  /\ resp[p].body.issue_with_isbn = req[p].isbn
                  /\ resp[p].body.type_of_request = JLit(TypeOfRequest(p))
            /\ LookupErrorResulted(p) =>
                  resp[p].kind = "response" /\ resp[p].status = 500
            /\ RecordResulted(p) =>
                  /\ resp[p].kind = "response"
                  /\ resp[p].status = (IF req[p].method = "GET" THEN 200 ELSE 201)
                  /\ req[p].method = "GET" => "title" \in DOMAIN resp[p].body

\* d is the LookupError diagnostic of p's request
IsDiagnosticOf(d, p) ==
    /\ {"level_of_error", "issue_with_isbn", "api_url"} \subseteq DOMAIN d
    /\ d.level_of_error.v \in 1..7
    /\ d.issue_with_isbn = req[p].isbn
    /\ d.api_url = ApiUrl(req[p].isbn)
    /\ d.level_of_error.v = 1 =>
          "status_code" \in DOMAIN d /\ d.status_code = JNum(ext[p].status_code)

\* C10 as stated: for GET and POST alike the 500 body is the diagnostic
\* itself, with type_of_request beside level_of_error at its top level.
C10_TopLevelDiagnostic ==
    \A p \in Workers :
        (ApiRequest(p) /\ LookupErrorResulted(p)) =>
            /\ resp[p].kind = "response"
            /\ resp[p].status = 500
            /\ IsDiagnosticOf(resp[p].body, p)
            /\ "type_of_request" \in DOMAIN resp[p].body
            /\ resp[p].body.type_of_request = JLit(TypeOfRequest(p))

\* C10 (amended): a LookupError gives 500 on both endpoints; on GET the body
\* is the diagnostic itself with type_of_request "get" at its top level; on
\* POST the body is {internal_server_error: diagnostic, type_of_request:
\* "post"}, the diagnostic nested one level down and itself unannotated.
C10_DiagnosticPerEndpoint ==
    \A p \in Workers :
        (ApiRequest(p) /\ LookupErrorResulted(p)) =>
            /\ resp[p].kind = "response"
            /\ resp[p].status = 500
            /\ IF req[p].method = "GET"
               THEN /\ IsDiagnosticOf(resp[p].body, p)
                    /\ "type_of_request" \in DOMAIN resp[p].body
                    /\ resp[p].body.type_of_request = JLit("get")
               ELSE /\ DOMAIN resp[p].body = {"internal_server_error", "type_of_request"}
                    /\ resp[p].body.type_of_request = JLit("post")
                    /\ resp[p].body.internal_server_error.t = "obj"
                    /\ IsDiagnosticOf(resp[p].body.internal_server_error.v, p)
                    /\ "type_of_request" \notin DOMAIN resp[p].body.internal_server_error.v

\* a POST answered 500 with a level-1 diagnostic nested in its body
C10_Witness ==
    \E p \in Workers :
        /\ ApiRequest(p) /\ LookupErrorResulted(p)
        /\ req[p].method = "POST"
        /\ resp[p].body.internal_server_error.v.level_of_error = JNum(1)
        /\ "status_code" \in DOMAIN resp[p].body.internal_server_error.v

\* the seven checks of the normalizer on a response r, each meaningful once
\* the ones before it have passed
ChecksPassed(r) ==
    LET c1 == r.status_code = 200
        c2 == c1 /\ r.body.t = "obj"
        c3 == c2 /\ "docs" \in DOMAIN r.body.v
        c4 == c3 /\ r.body.v.docs.t = "list"
        c5 == c4 /\ Len(r.body.v.docs.v) >= 1
        c6 == c5 /\ r.body.v.docs.v[1].t = "obj"
        c7 == c6 /\ \A key \in DocKeys :
                        /\ key \in DOMAIN r.body.v.docs.v[1].v
                        /\ r.body.v.docs.v[1].v[key] \notin
                               {JNull, JNum(0), JBool(FALSE), JStr(<<>>), JList(<<>>), JObj(<<>>)}
    IN  <<c1, c2, c3, c4, c5, c6, c7>>

\* C4: validate_response checks status 200, body an object, docs present,
\* docs a list, docs non-empty, first element an object, four keys non-empty,
\* in that order: an error of level k means checks 1..k-1 passed on that
\* response; a later check is not evaluated (a non-200 status gives level 1
\* whatever the body, parsable or not); a document is returned only when all
\* seven pass, and it is the first element of docs; {"docs": []} gives 5.
C4_OrderedChecks ==
    fn_out # NoArg =>
        LET r == fn_in.response
            passed == ChecksPassed(r)
        IN  /\ r.status_code # 200 =>
                  ~IsRaise(fn_out) /\ fn_out.ret.level_of_error = JNum(1)
            /\ (~IsRaise(fn_out) /\ "level_of_error" \in DOMAIN fn_out.ret) =>
                  /\ fn_out.ret.level_of_error.v \in 1..7
                  /\ \A j \in 1..(fn_out.ret.level_of_error.v - 1) : passed[j]
            /\ (~IsRaise(fn_out) /\ "level_of_error" \notin DOMAIN fn_out.ret) =>
                  /\ \A j \in 1..7 : passed[j]
                  /\ fn_out.ret = r.body.v.docs.v[1].v
            /\ r = Ok(DocsBody(<<>>)) =>
                  ~IsRaise(fn_out) /\ fn_out.ret.level_of_error = JNum(5)

\* a 200 response with {"docs": []} was given level 5
C4_Witness ==
    /\ fn_in # NoArg
    /\ fn_in.response = Ok(DocsBody(<<>>))
    /\ fn_out # NoArg
    /\ fn_out.ret.level_of_error = JNum(5)

\* C8: handlers that run at the same time each make their own call and
\* their own insert: every success is one call and one row of that request's
\* own isbn, still in the store where it was put; the store holds as many
\* rows as there were successes, whether their ISBNs are the same or not;
\* and what a request is answered is what it would be answered alone.
C8_EachInvocationItsOwn ==
    /\ Len(store) = totals.succeeded
    /\ \A p \in Workers :
          (pc[p] = "done" /\ req[p].view \in PersistingViews) =>
              /\ resp[p].outcome = "Success" =>
                    /\ calls[p] = 1
                    /\ Len(saved[p]) = 1
                    /\ saved[p][1].isbn = JStr(PyStr(req[p].isbn))
                    /\ saved[p][1].id.v \in 1..Len(store)
                    /\ store[saved[p][1].id.v] = saved[p][1]
              /\ resp[p].outcome # "Success" => saved[p] = <<>>
              /\ (req[p].view = "book_list" /\ calls[p] = 1) =>
                    resp[p] = BookListView_post_respond(req[p].isbn, ext[p])

\* two handlers are done at the same moment, both saved the same ISBN, and
\* both rows are in the store
C8_Witness ==
    \E p \in Workers : \E q \in Workers \ {p} :
        /\ pc[p] = "done" /\ pc[q] = "done"
        /\ resp[p].outcome = "Success" /\ resp[q].outcome = "Success"
        /\ Len(saved[p]) = 1 /\ Len(saved[q]) = 1
        /\ saved[p][1].isbn = saved[q][1].isbn
        /\ saved[p][1].id # saved[q][1].id

\* r is a 200 response whose docs is a list with an object first
HasFirstDoc(r) ==
    /\ ~IsTransportFailure(r)
    /\ r.status_code = 200
    /\ r.body.t = "obj"
    /\ "docs" \in DOMAIN r.body.v
    /\ r.body.v.docs.t = "list"
    /\ Len(r.body.v.docs.v) >= 1
    /\ r.body.v.docs.v[1].t = "obj"

FirstDoc(r) == r.body.v.docs.v[1].v

\* a value as Open Library gives it: a title is text, the others are lists
\* of text
WellFormedValue(k, x) ==
    IF k = "title" THEN x.t = "str" /\ x.v # <<>>
    ELSE x.t = "list" /\ Len(x.v) >= 1 /\ x.v[1].t = "str"

\* the document d lacks the key k and is well-formed otherwise
OmitsOnly(d, k) ==
    /\ k \notin DOMAIN d
    /\ \A j \in DocKeys \ {k} : j \in DOMAIN d /\ WellFormedValue(j, d[j])

DescriptiveKeys == {"title", "author_name", "publisher"}

FieldOf(k) == IF k = "author_name" THEN "author" ELSE k

PlaceholderOf(k) ==
    CASE k = "title" -> TitleNotAvailable
      [] k = "author_name" -> AuthorNotAvailable
      [] k = "publisher" -> PublisherNotAvailable

\* C11 as stated: a document that omits title, author_name or publisher and
\* is well-formed otherwise still gives a record, with the placeholder in
\* the missing field.
C11_PlaceholderForMissingField ==
    fn_out # NoArg =>
        \A k \in DescriptiveKeys :
            (HasFirstDoc(fn_in.response) /\ OmitsOnly(FirstDoc(fn_in.response), k)) =>
                /\ ~IsRaise(fn_out)
                /\ "error" \notin DOMAIN fn_out.ret
                /\ fn_out.ret[FieldOf(k)] = JStr(PlaceholderOf(k))

\* C11 (amended): a document that omits title, author_name or publisher
\* gives no record but a level-7 LookupError naming the omitted key; a
\* record is built only from a document that has all four keys, so that no
\* placeholder ever stands in for a missing field.
C11_MissingFieldIsLevel7 ==
    fn_out # NoArg =>
        /\ \A k \in DescriptiveKeys :
              (HasFirstDoc(fn_in.response) /\ OmitsOnly(FirstDoc(fn_in.response), k)) =>
                  /\ ~IsRaise(fn_out)
                  /\ "level_of_error" \in DOMAIN fn_out.ret
                  /\ fn_out.ret.level_of_error = JNum(7)
                  /\ fn_out.ret.error_details = JKeyMessage(k)
        /\ (~IsRaise(fn_out) /\ "error" \notin DOMAIN fn_out.ret) =>
              /\ HasFirstDoc(fn_in.response)
              /\ DocKeys \subseteq DOMAIN FirstDoc(fn_in.response)
              /\ fn_out.ret.title = FirstDoc(fn_in.response).title

\* a document without a title was answered with level 7
C11_Witness ==
    /\ fn_out # NoArg
    /\ HasFirstDoc(fn_in.response)
    /\ OmitsOnly(FirstDoc(fn_in.response), "title")
    /\ ~IsRaise(fn_out)
    /\ "level_of_error" \in DOMAIN fn_out.ret
    /\ fn_out.ret.level_of_error = JNum(7)

\* the key k is missing from the document d, or holds None, False, 0, "",
\* [] or {}
MissingOrEmpty(d, k) ==
    k \notin DOMAIN d
        \/ d[k] \in {JNull, JBool(FALSE), JNum(0), JStr(<<>>), JList(<<>>), JObj(<<>>)}

KeyOrder == <<"title", "author_name", "publisher", "language">>

\* the first key of d, in the order title, author_name, publisher,
\* language, that is missing or empty
FirstOffending(d) ==
    KeyOrder[CHOOSE i \in 1..4 :
                 /\ MissingOrEmpty(d, KeyOrder[i])
                 /\ \A j \in 1..(i - 1) : ~MissingOrEmpty(d, KeyOrder[j])]

\* C12: on a response that passes checks 1 to 6, a title, author_name,
\* publisher or language that is missing or empty in the first document
\* gives a level-7 LookupError whose detail names the first such key, and no
\* document is returned; a document lacking only language gives level 7
\* naming language.
C12_Level7NamesFirstKey ==
    fn_out # NoArg =>
        LET r == fn_in.response IN
        /\ (HasFirstDoc(r) /\ \E k \in DocKeys : MissingOrEmpty(FirstDoc(r), k)) =>
              /\ ~IsRaise(fn_out)
              /\ "error" \in DOMAIN fn_out.ret
              /\ fn_out.ret.level_of_error = JNum(7)
              /\ fn_out.ret.error_details = JKeyMessage(FirstOffending(FirstDoc(r)))
        /\ r = Ok(DocsBody(<<JObj(NoLanguageOnlyDoc)>>)) =>
              /\ ~IsRaise(fn_out)
              /\ fn_out.ret.level_of_error = JNum(7)
              /\ fn_out.ret.error_details = JKeyMessage("language")

\* a document with an empty author_name and no publisher was answered with
\* level 7 naming author_name
C12_Witness ==
    /\ fn_out # NoArg
    /\ HasFirstDoc(fn_in.response)
    /\ ~MissingOrEmpty(FirstDoc(fn_in.response), "title")
    /\ "author_name" \in DOMAIN FirstDoc(fn_in.response)
    /\ MissingOrEmpty(FirstDoc(fn_in.response), "author_name")
    /\ "publisher" \notin DOMAIN FirstDoc(fn_in.response)
    /\ ~IsRaise(fn_out)
    /\ fn_out.ret.level_of_error = JNum(7)
    /\ fn_out.ret.error_details = JKeyMessage("author_name")

\* the text of an isbn argument with its hyphens and whitespace removed
Stripped(x) ==
    SelectSeq(PyStr(x), LAMBDA c : c # "-" /\ c # " " /\ c # "\t" /\ c # "\n")

\* C13: an input of cleaned length 10 is valid exactly when it is nine
\* digits and a digit or X/x, and the last character is, whatever its case,
\* the check character (1*d1 + 2*d2 + ... + 9*d9) mod 11, written X for 10;
\* 0306406152 and 0-306-40615-2 are valid, 0306406153 is not.
C13_Isbn10Rule ==
    fn_out # NoArg =>
        /\ Len(Stripped(fn_in.isbn)) = 10 =>
              fn_out = Return(Isbn10ChecksumHolds(Stripped(fn_in.isbn)))
        /\ fn_in.isbn \in {JStr(Isbn10Valid), JStr(Isbn10Hyphen)} => fn_out = Return(TRUE)
        /\ fn_in.isbn = JStr(Isbn10BadCheck) => fn_out = Return(FALSE)

\* an ISBN-10 ending in a lower-case x, typed with hyphens, was accepted
C13_Witness ==
    /\ fn_out = Return(TRUE)
    /\ Len(PyStr(fn_in.isbn)) > 10
    /\ Len(Stripped(fn_in.isbn)) = 10
    /\ Stripped(fn_in.isbn)[10] = "x"

\* the ISBN-13 rule as the check digit: thirteen digits, the last one being
\* (10 - (d1 + 3*d2 + ... + d11 + 3*d12) mod 10) mod 10
Isbn13CheckDigitHolds(s) ==
    /\ Len(s) = 13
    /\ \A i \in 1..13 : s[i] \in Digits
    /\ DigitVal(s[13]) = (10 - (Mod10Sum(s, 12) % 10)) % 10

\* C14: an input of cleaned length 13 is valid exactly when it is thirteen
\* digits whose last is (10 - (weighted sum of the first twelve, weights 1
\* and 3 alternating) mod 10) mod 10; any cleaned length other than 10 and
\* 13 is invalid; the result is always a boolean, never an exception.
C14_Isbn13Rule ==
    fn_out # NoArg =>
        /\ ~IsRaise(fn_out)
        /\ fn_out.ret \in BOOLEAN
        /\ Len(Stripped(fn_in.isbn)) = 13 =>
              fn_out = Return(Isbn13CheckDigitHolds(Stripped(fn_in.isbn)))
        /\ Len(Stripped(fn_in.isbn)) \notin {10, 13} => fn_out = Return(FALSE)
        /\ fn_in.isbn = JStr(Isbn13Valid) => fn_out = Return(TRUE)
        /\ fn_in.isbn \in {JStr(IsbnLen12), JStr(Isbn13Valid \o <<"7">>)} =>
              fn_out = Return(FALSE)

\* an ISBN-13 whose check digit is 0, typed with hyphens, was accepted
C14_Witness ==
    /\ fn_out = Return(TRUE)
    /\ Len(PyStr(fn_in.isbn)) > 13
    /\ Len(Stripped(fn_in.isbn)) = 13
    /\ Stripped(fn_in.isbn)[13] = "0"

\* the first element of a list, the first character of a text
FirstElement(x) == IF x.t = "str" THEN JStr(<<x.v[1]>>) ELSE x.v[1]

\* C15: for a response that passes all seven checks fetch_book_data returns
\* the record whose title is the document's, whose author, publisher and
\* language are the first elements of author_name, publisher and language,
\* whose isbn is the caller's and whose cover_page_url is
\* https://covers.openlibrary.org/b/isbn/{isbn}-L.jpg, whatever else the
\* payload holds.
C15_RecordFromFirstDoc ==
    fn_out # NoArg =>
        LET r == fn_in.response IN
        (HasFirstDoc(r) /\ \A k \in DocKeys : ~MissingOrEmpty(FirstDoc(r), k)) =>
            /\ ~IsRaise(fn_out)
            /\ "error" \notin DOMAIN fn_out.ret
            /\ fn_out.ret =
                  [title |-> FirstDoc(r).title,
                   author |-> FirstElement(FirstDoc(r).author_name),
                   publisher |-> FirstElement(FirstDoc(r).publisher),
                   language |-> FirstElement(FirstDoc(r).language),
                   isbn |-> fn_in.isbn,
                   cover_page_url |->
                       JStr(CoverPrefix \o PyStr(fn_in.isbn) \o <<"-", "L", ".", "j", "p", "g">>)]

\* p has answered with a listing of the catalog: the API list endpoint, or
\* the index page
ListedBy(p) ==
    IF ViewOf(p) = <<"book_list", "GET">> THEN resp[p].body.v
    ELSE resp[p].body.context.v.books.v

IsListing(p) ==
    /\ pc[p] = "done"
    /\ resp[p].kind = "response"
    /\ resp[p].outcome \in {"Listing", "Rendered"}
    /\ \/ ViewOf(p) = <<"book_list", "GET">>
       \/ req[p].view = "index" /\ resp[p].body.template = JLit("app/index.html")

\* the rows of the store, the one inserted last first
LatestFirst(l) ==
    /\ Len(l) = Len(store)
    /\ \A i \in 1..Len(l) : l[i] = JObj(store[Len(store) + 1 - i])

\* the rows of the store, the one inserted first first
InsertionOrder(l) ==
    /\ Len(l) = Len(store)
    /\ \A i \in 1..Len(l) : l[i] = JObj(store[i])

\* ids grow with insertion: the store is in the order of its inserts
StoreInInsertOrder == \A i \in 1..Len(store) : store[i].id = JNum(i)

\* C16 as stated: the API list endpoint and the index page both list the
\* persisted records most-recently-inserted first.
C16_LatestFirstEverywhere ==
    \A p \in Workers : IsListing(p) => LatestFirst(ListedBy(p))

\* C16 (amended): the index page lists the persisted records
\* most-recently-inserted first; the API list endpoint lists them in
\* insertion order, the first-inserted first.
C16_OrderPerListing ==
    /\ StoreInInsertOrder
    /\ \A p \in Workers :
          IsListing(p) =>
              IF req[p].view = "index" THEN LatestFirst(ListedBy(p))
              ELSE InsertionOrder(ListedBy(p))

\* the index page has listed two rows
C16_Witness ==
    \E p \in Workers :
        /\ IsListing(p)
        /\ req[p].view = "index"
        /\ Len(ListedBy(p)) = 2
        /\ ListedBy(p)[1].v.id = JNum(2)

\* C17: the API list endpoint answers 200 with exactly the persisted
\* records, one entry per row inserted, the first-inserted first.
C17_ListInInsertionOrder ==
    \A p \in Workers :
        (pc[p] = "done" /\ ViewOf(p) = <<"book_list", "GET">>) =>
            /\ resp[p].kind = "response"
            /\ resp[p].status = 200
            /\ Len(resp[p].body.v) = totals.succeeded
            /\ \A i \in 1..Len(resp[p].body.v) :
                  /\ resp[p].body.v[i] = JObj(store[i])
                  /\ resp[p].body.v[i].v.id = JNum(i)

\* the API list endpoint has listed two rows, the older one first
C17_Witness ==
    \E p \in Workers :
        /\ pc[p] = "done"
        /\ ViewOf(p) = <<"book_list", "GET">>
        /\ Len(resp[p].body.v) = 2
        /\ resp[p].body.v[1].v.id = JNum(1)
        /\ resp[p].body.v[2].v.id = JNum(2)

\* the level of the error validate_response returned, 0 when it returned a
\* document or raised
LevelReturned ==
    IF ~IsRaise(fn_out) /\ "level_of_error" \in DOMAIN fn_out.ret
    THEN fn_out.ret.level_of_error.v ELSE 0

\* the response given to validate_response has status 200 and an object body
ObjectBody200 ==
    /\ fn_out # NoArg
    /\ fn_in.response.status_code = 200
    /\ fn_in.response.body.t = "obj"

\* C18 as stated: on a 200 response with an object body, level 3 is returned
\* exactly when the key docs is absent, and level 4 whenever docs is present
\* with a value that is not a list, null included.
C18_Level3IffKeyAbsent ==
    ObjectBody200 =>
        LET o == fn_in.response.body.v IN
        /\ LevelReturned = 3 <=> "docs" \notin DOMAIN o
        /\ ("docs" \in DOMAIN o /\ o.docs.t # "list") => LevelReturned = 4

\* C18 (amended): level 3 is returned exactly when the key docs is absent
\* or its value is null; level 4 whenever docs is present with a value that
\* is neither null nor a list.
C18_Level3IffAbsentOrNull ==
    ObjectBody200 =>
        LET o == fn_in.response.body.v IN
        /\ LevelReturned = 3 <=> ("docs" \notin DOMAIN o \/ o.docs = JNull)
        /\ ("docs" \in DOMAIN o /\ o.docs.t \notin {"null", "list"}) => LevelReturned = 4
        /\ LevelReturned = 4 => ("docs" \in DOMAIN o /\ o.docs.t \notin {"null", "list"})

\* {"docs": null} was answered with level 3
C18_Witness ==
    /\ ObjectBody200
    /\ "docs" \in DOMAIN fn_in.response.body.v
    /\ fn_in.response.body.v.docs = JNull
    /\ LevelReturned = 3

\* p is the confirm step and has saved a row
Confirmed(p) ==
    /\ pc[p] = "done"
    /\ ViewOf(p) = <<"add_book", "POST">>
    /\ resp[p].kind = "response"
    /\ resp[p].outcome = "Success"

\* the columns of a row, without its id
ColumnsOf(row) == [f \in BookFields |-> row[f]]

=============================================================================
